---- MODULE Spec2Model ----
(***************************************************************************)
(* State-machine model of the ZFSBootMenu notcurses installer wizard:      *)
(* ZBMNotcursesTUI.run (tui/python/notcurses_ui.py) and the screens it     *)
(* drives (tui/python/notcurses_components.py).                            *)
(*                                                                         *)
(* A Python str whose characters the code inspects (pool_name) is a tuple  *)
(* of one-character strings; every other str is a TLA+ string.  A dict is  *)
(* a function whose DOMAIN is the set of keys present.  A key event is the *)
(* string BaseScreen.wait_for_key returns.                                 *)
(***************************************************************************)
EXTENDS Integers, Sequences, FiniteSets, TLC

VARIABLES
    pc,             \* position in ZBMNotcursesTUI.run
    exit_code,      \* value run() returns (the process status); -1 while running
    nc,             \* self.nc: "None", "up" (initialized), "stopped"
    cleanups,       \* number of times cleanup() has stopped the renderer
    current_screen, \* self.current_screen
    state,          \* self.state, the configuration dict
    system_info,    \* self.system_info
    devices,        \* keys of self.devices
    screen,         \* the screen object of the current loop iteration
    backend_report, \* what the installation backend reports for the step in progress
    hist            \* history kept for the navigation properties, when switched on:
                    \* self.state as it was when the current screen object was
                    \* built, the direction of the step that built it, and the
                    \* number of Settings edits made so far

vars == <<pc, exit_code, nc, cleanups, current_screen, state, system_info,
          devices, screen, backend_report, hist>>

----------------------------------------------------------------------------
(* Bounds of the model *)

\* number of block devices the startup path may enumerate
NumDevices == 1
\* number of Settings edits in a run whose history is kept
MaxEdits == 2
\* largest number of drives in a configuration handed to run_validations alone
MaxDrives == 5
\* longest pool name handed to run_validations alone
MaxNameLen == 2

----------------------------------------------------------------------------
(* Program constants *)

\* ram_ok = ram_gb >= 2
MinRamGb == 2
\* self.max_log_lines = 10
max_log_lines == 10

----------------------------------------------------------------------------
(* Python helpers *)

\* dict.get(key, default)
Get(d, key, default) == IF key \in DOMAIN d THEN d[key] ELSE default

Digits == <<"0", "1", "2", "3", "4", "5", "6", "7", "8", "9">>

\* f"{n}" of a non-negative int
RECURSIVE ToStr(_)
ToStr(n) == IF n < 10 THEN Digits[n + 1]
            ELSE ToStr(n \div 10) \o Digits[(n % 10) + 1]

\* the str a tuple of characters stands for
RECURSIVE Join(_)
Join(s) == IF s = <<>> THEN "" ELSE Head(s) \o Join(Tail(s))

\* str.replace(old, "") for a one-character old
Remove(s, old) == SelectSeq(s, LAMBDA c : c # old)

Lowercase == {"a", "b", "c", "d", "e", "f", "g", "h", "i", "j", "k", "l", "m",
              "n", "o", "p", "q", "r", "s", "t", "u", "v", "w", "x", "y", "z"}
Uppercase == {"A", "B", "C", "D", "E", "F", "G", "H", "I", "J", "K", "L", "M",
              "N", "O", "P", "Q", "R", "S", "T", "U", "V", "W", "X", "Y", "Z"}
DigitChars == {"0", "1", "2", "3", "4", "5", "6", "7", "8", "9"}
\* a letter outside ASCII (LATIN SMALL LETTER E WITH ACUTE), written as a token
NonAsciiLetter == "U+00E9"

\* the characters c with c.isalnum(): Unicode letters and digits
AlnumChars == Lowercase \cup Uppercase \cup DigitChars \cup {NonAsciiLetter}

\* str.isalnum(): every character alphanumeric and at least one character
isalnum(s) == Len(s) > 0 /\ \A i \in 1..Len(s) : s[i] \in AlnumChars

\* list.index(x) as a 0-based position, -1 standing for ValueError
IndexOf(seq, x) == IF \E i \in 1..Len(seq) : seq[i] = x
                   THEN (CHOOSE i \in 1..Len(seq) :
                            seq[i] = x /\ \A j \in 1..(i - 1) : seq[j] # x) - 1
                   ELSE -1

\* str.lower() of a key event
Lower(key) == CASE key = "Q" -> "q"
                [] key = "C" -> "c"
                [] key = "Y" -> "y"
                [] key = "N" -> "n"
                [] OTHER -> key

----------------------------------------------------------------------------
(* ValidationScreen.run_validations *)

\* min_drives = {"raidz1": 3, "raidz2": 4, "raidz3": 5}
min_drives == [raidz1 |-> 3, raidz2 |-> 4, raidz3 |-> 5]

\* Check 1: EFI system
EfiCheck(si) ==
    LET is_efi == Get(si, "is_efi", FALSE)
    IN  [name |-> "EFI System Check",
         passed |-> is_efi,
         message |-> IF is_efi THEN "System is EFI" ELSE "BIOS not supported",
         critical |-> TRUE]

\* Check 2: Sufficient RAM
RamCheck(si) ==
    LET ram_gb == Get(si, "ram_gb", 0)
        ram_ok == ram_gb >= MinRamGb
    IN  [name |-> "RAM Check",
         passed |-> ram_ok,
         message |-> IF ram_ok THEN ToStr(ram_gb) \o "GB RAM available"
                     ELSE "Only " \o ToStr(ram_gb) \o "GB RAM (need 2GB+)",
         critical |-> TRUE]

\* Check 3: Drives selected
DriveCheck(st) ==
    LET n == Cardinality(st.drives)
        drives_ok == n > 0
    IN  [name |-> "Drive Selection",
         passed |-> drives_ok,
         message |-> IF drives_ok THEN ToStr(n) \o " drive(s) selected"
                     ELSE "No drives selected",
         critical |-> TRUE]

\* the mirror guard: raid_level == "mirror" and len(drives) < 2
MirrorTooFew(raid_level, n) == raid_level = "mirror" /\ n < 2

\* mutant of RaidzTooFew: the comparison off by one
RaidzTooFewOffByOne(raid_level, n) == n <= min_drives[raid_level]

\* the raidz guard: len(drives) < min_drives[raid_level]
RaidzTooFew(raid_level, n) == n < min_drives[raid_level]

\* Check 4: RAID level valid for drive count
RaidCheck(st) ==
    LET raid_level == st.raid_level
        n == Cardinality(st.drives)
        res == IF MirrorTooFew(raid_level, n)
               THEN [ok |-> FALSE, msg |-> "Mirror requires 2+ drives"]
               ELSE IF raid_level \in {"raidz1", "raidz2", "raidz3"}
                       /\ RaidzTooFew(raid_level, n)
               THEN [ok |-> FALSE,
                     msg |-> raid_level \o " requires "
                             \o ToStr(min_drives[raid_level]) \o "+ drives"]
               ELSE [ok |-> TRUE, msg |-> "RAID level: " \o raid_level]
    IN  [name |-> "RAID Configuration",
         passed |-> res.ok,
         message |-> res.msg,
         critical |-> TRUE]

\* pool_ok = len(pool_name) > 0 and
\*           pool_name.replace("_", "").replace("-", "").isalnum()
PoolOk(pool_name) ==
    Len(pool_name) > 0 /\ isalnum(Remove(Remove(pool_name, "_"), "-"))

\* Check 5: Pool name valid
PoolCheck(st) ==
    LET pool_ok == PoolOk(st.pool_name)
    IN  [name |-> "Pool Name",
         passed |-> pool_ok,
         message |-> IF pool_ok THEN "Pool name: " \o Join(st.pool_name)
                     ELSE "Invalid pool name",
         critical |-> TRUE]

\* Check 6: Hostname valid
HostnameCheck(st) ==
    LET hostname_ok == Len(st.hostname) > 0
    IN  [name |-> "Hostname",
         passed |-> hostname_ok,
         message |-> IF hostname_ok THEN "Hostname: " \o st.hostname
                     ELSE "Hostname not set",
         critical |-> FALSE]

\* mutant of HostnameChecked: the check appended in either mode
HostnameCheckedInAnyMode(st) == st.mode \in {"new", "existing"}

\* if self.state.get("mode") == "existing": the Hostname check is appended
HostnameChecked(st) == st.mode = "existing"

\* self.checks after run_validations
Checks(st, si) ==
    <<EfiCheck(si), RamCheck(si), DriveCheck(st), RaidCheck(st), PoolCheck(st)>>
    \o (IF HostnameChecked(st) THEN <<HostnameCheck(st)>> ELSE <<>>)

\* mutant of AllCriticalPassed: every check must pass, critical or not
AllChecksPassed(checks) ==
    \A i \in 1..Len(checks) : checks[i].passed

\* all(check["passed"] for check in self.checks if check["critical"])
AllCriticalPassed(checks) ==
    \A i \in 1..Len(checks) : checks[i].critical => checks[i].passed

\* mutant of ClearedChecks: the results of the previous run are kept
ChecksKept(checks) == checks

\* self.checks = [], the first statement of run_validations
ClearedChecks(checks) == <<>>

\* the ValidationScreen object scr after scr.run_validations()
run_validations_on(scr, st, si) ==
    LET checks == ClearedChecks(scr.checks) \o Checks(st, si)
    IN  [class |-> "ValidationScreen",
         checks |-> checks,
         all_passed |-> AllCriticalPassed(checks)]

\* a ValidationScreen object as built by __init__, after run_validations()
run_validations(st, si) ==
    run_validations_on([class |-> "ValidationScreen", checks |-> <<>>,
                        all_passed |-> FALSE], st, si)

----------------------------------------------------------------------------
(* ZBMNotcursesTUI.__init__ *)

\* {} : the dict with no keys
EmptyDict == <<>>

\* self.state as constructed
InitialState ==
    [mode |-> "None",
     drives |-> {},
     pool_name |-> <<"z", "r", "o", "o", "t">>,
     raid_level |-> "none",
     bootloader |-> "zbm",
     compression |-> "zstd",
     ashift |-> "",
     efi_size |-> "1G",
     swap_size |-> "8G",
     hostname |-> "",
     source_root |-> "/",
     copy_home |-> TRUE,
     exclude_paths |-> <<>>]

----------------------------------------------------------------------------
(* Inputs of the startup path *)

\* device names, in sorted order
DeviceNames == <<"sda", "sdb", "sdc", "sdd", "sde", "sdf", "sdg">>

DeviceSet(n) == {DeviceNames[i] : i \in 1..n}

\* the key sets self.devices may hold after startup
DeviceSets == {DeviceSet(n) : n \in 0..NumDevices}

\* ram_gb values around the threshold
RamValues == {MinRamGb - 1, MinRamGb}

\* system_info dicts: each of is_efi, ram_gb present or missing
SysInfos ==
    {EmptyDict}
    \cup {("is_efi" :> e) : e \in BOOLEAN}
    \cup {("ram_gb" :> r) : r \in RamValues}
    \cup {("is_efi" :> e) @@ ("ram_gb" :> r) : e \in BOOLEAN, r \in RamValues}

\* the "system_info" values of the startup payloads tried: a machine that
\* passes, one that is not EFI, one whose ram_gb is missing
PayloadInfos ==
    {("is_efi" :> e) @@ ("ram_gb" :> MinRamGb) : e \in BOOLEAN}
    \cup {("is_efi" :> TRUE)}

\* what detect_system_info leaves in self.system_info, on a machine with
\* enough memory: is_efi from /sys/firmware/efi, ram_gb from /proc/meminfo
DetectedInfos == {("is_efi" :> e) @@ ("ram_gb" :> MinRamGb) : e \in BOOLEAN}

----------------------------------------------------------------------------
(* Screen objects *)

NoScreen == [class |-> "None"]

WelcomeScreen == [class |-> "WelcomeScreen"]

\* self.modes, by mode id
modes == <<"new", "existing">>

ModeSelectionScreen == [class |-> "ModeSelectionScreen", selected |-> 0]

\* self.selected_drives = set(selected_drives); self.cursor = 0
DeviceSelectionScreen(selected_drives) ==
    [class |-> "DeviceSelectionScreen",
     selected_drives |-> selected_drives,
     cursor |-> 0]

\* self.device_list = sorted(devices.keys())
device_list(dv) == SelectSeq(DeviceNames, LAMBDA d : d \in dv)

CompressionChoices == <<"lz4", "zstd", "gzip-9", "off">>
RaidChoices == <<"none", "mirror", "raidz1", "raidz2", "raidz3">>
BootloaderChoices == <<"zbm", "systemd-boot", "refind">>
AshiftChoices == <<"auto", "9", "12", "13">>

CommonFields ==
    << <<"pool_name", "Pool Name", "text">>,
       <<"hostname", "Hostname", "text">>,
       <<"compression", "Compression", "choice", CompressionChoices>>,
       <<"raid_level", "RAID Level", "choice", RaidChoices>>,
       <<"bootloader", "Bootloader", "choice", BootloaderChoices>>,
       <<"ashift", "Ashift", "choice", AshiftChoices>>,
       <<"efi_size", "EFI Size", "text">>,
       <<"swap_size", "Swap Size", "text">> >>

\* self.fields, defined from the mode when the SettingsScreen is built
fields(st) ==
    IF st.mode = "existing"
    THEN CommonFields \o << <<"source_root", "Source Root", "text">>,
                            <<"copy_home", "Copy /home", "bool">> >>
    ELSE CommonFields

\* self.cursor = 0; editing names the field edit_text_field is waiting on
SettingsScreen == [class |-> "SettingsScreen", cursor |-> 0, editing |-> ""]

\* self.checks = []; self.all_passed = False
ValidationScreen ==
    [class |-> "ValidationScreen", checks |-> <<>>, all_passed |-> FALSE]

ConfirmationScreen == [class |-> "ConfirmationScreen"]

MigrationSteps ==
    <<"Checking device fitness", "Preparing target drives", "Creating partitions",
      "Setting up ZFS pool", "Mounting filesystems", "Copying system files",
      "Zapping network configuration", "Installing bootloader",
      "Finalizing installation">>

NewInstallSteps ==
    <<"Checking device fitness", "Preparing target drives", "Creating partitions",
      "Setting up ZFS pool", "Installing base system", "Installing bootloader",
      "Finalizing installation">>

\* mutant of init_steps: the step list does not depend on the mode
init_steps_unbranched(st) == NewInstallSteps

\* InstallationScreen.init_steps
init_steps(st) == IF st.mode = "existing" THEN MigrationSteps ELSE NewInstallSteps

\* what InstallationScreen.update_display draws of the progress: the k and n
\* of "Overall Progress: Step k of n" and the percentage handed to the
\* progress bar, int((current_step / len(steps)) * 100). The quotient is a
\* whole number only at current_step = 0 and current_step = len(steps) for
\* the lists of seven and nine steps, where the floating-point value is
\* exact, so the truncation is the integer division below.
update_display(current_step, steps) ==
    [step |-> current_step + 1,
     of |-> Len(steps),
     percent |-> (current_step * 100) \div Len(steps)]

\* the InstallationScreen once show() has called init_steps(): i is the index
\* of the for loop, at the position inside show(), drawn the progress last
\* drawn by update_display (empty before the first update)
InstallationScreen(st) ==
    [class |-> "InstallationScreen",
     steps |-> init_steps(st),
     current_step |-> 0,
     log_lines |-> <<>>,
     i |-> 0,
     at |-> "start",
     drawn |-> <<>>]

CompletionScreen == [class |-> "CompletionScreen"]

\* mutant of add_log: the newest entry is dropped instead of the oldest
add_log_drop_newest(log_lines, message) ==
    LET appended == Append(log_lines, message)
    IN  IF Len(appended) > max_log_lines
        THEN SubSeq(appended, 1, Len(appended) - 1)
        ELSE appended

\* log_lines after add_log(message)
add_log(log_lines, message) ==
    LET appended == Append(log_lines, message)
    IN  IF Len(appended) > max_log_lines THEN Tail(appended) ELSE appended

\* mutant of ValidationShown: the results shown are those of the defaults
ValidationOfDefaults(st, si) == run_validations(InitialState, si)

\* ValidationScreen(self.nc, self.state, self.system_info) once show() has
\* called self.run_validations()
ValidationShown(st, si) == run_validations(st, si)

\* the screen object one iteration of the main loop builds for screen `name`,
\* as it stands when show() first waits (for a key, or on a sleep)
Shown(name, st, si) ==
    CASE name = "welcome" -> WelcomeScreen
      [] name = "mode_select" -> ModeSelectionScreen
      [] name = "device_select" -> DeviceSelectionScreen(st.drives)
      [] name = "settings" -> SettingsScreen
      [] name = "validation" -> ValidationShown(st, si)
      [] name = "confirm" -> ConfirmationScreen
      [] name = "install" -> InstallationScreen(st)
      [] name = "complete" -> CompletionScreen

----------------------------------------------------------------------------
(* ZBMNotcursesTUI.run: startup *)

\* the key events tried: one for each key or pair of keys a screen binds, and
\* "", the key release, which no screen binds
Keys == {"\n", " ", "escape", "j", "up", "q", "Q", "c", "y", "N", ""}

\* history switched off
NoHistory == [on |-> FALSE, cycles |-> FALSE]

\* history switched on, at construction
NewHistory ==
    [on |-> TRUE, cycles |-> FALSE, entry |-> InitialState, nav |-> "none", edits |-> 0]

\* history of the cycling of one Settings field, at construction: the field
\* cycled last, its value before the first cycle of the row, and the number
\* of cycles in the row
CycleHistory == [on |-> FALSE, cycles |-> TRUE, field |-> "", origin |-> "", count |-> 0]

\* the screens in the order of the wizard
ScreenOrder == <<"welcome", "mode_select", "device_select", "settings",
                 "validation", "confirm", "install", "complete">>

\* position of a screen in the wizard
Pos(name) == IndexOf(ScreenOrder, name)

\* the history once the screen object of screen `name` has been built from
\* configuration st
Entered(st, name) ==
    IF hist.on
    THEN [hist EXCEPT !.entry = st,
                      !.nav = IF Pos(name) < Pos(current_screen) THEN "back"
                              ELSE "forward"]
    ELSE hist

\* the history of cycling after one more edit of the field under the cursor:
\* a row of cycles of one field ends at as many cycles as the field has options
CycleNoted ==
    LET field_info == fields(state)[screen.cursor + 1]
        field_key == field_info[1]
    IN  IF hist.field = field_key /\ hist.count < Len(field_info[4])
        THEN [hist EXCEPT !.count = @ + 1]
        ELSE [hist EXCEPT !.field = field_key, !.origin = state[field_key],
                          !.count = 1]

\* the history after one more Settings edit
Edited ==
    IF hist.on THEN [hist EXCEPT !.edits = @ + 1]
    ELSE IF hist.cycles THEN CycleNoted
    ELSE hist

\* a run whose history is kept makes at most MaxEdits Settings edits
EditAllowed == hist.on => hist.edits < MaxEdits

Init ==
    /\ pc = "start"
    /\ exit_code = -1
    /\ nc = "None"
    /\ cleanups = 0
    /\ current_screen = "welcome"
    /\ state = InitialState
    /\ system_info = EmptyDict
    /\ devices = {}
    /\ screen = NoScreen
    /\ backend_report = "none"
    /\ hist = NoHistory

\* mutant of InitFailed: the result of init_notcurses() is not looked at
InitFailureIgnored(ok) == FALSE

\* if not self.init_notcurses()
InitFailed(ok) == ~ok

\* init_notcurses() returning ok, and run()'s `return 1` when it failed
InitNotcurses ==
    /\ pc = "start"
    /\ \E ok \in BOOLEAN :
          /\ nc' = IF ok THEN "up" ELSE nc
          /\ IF InitFailed(ok)
             THEN pc' = "done" /\ exit_code' = 1
             ELSE pc' = "load" /\ UNCHANGED exit_code
    /\ UNCHANGED <<cleanups, current_screen, state, system_info, devices,
                   screen, backend_report, hist>>

\* load_system_info() on a line that parses to the JSON object data
LoadObject(data) ==
    /\ pc = "load"
    /\ system_info' = Get(data, "system_info", EmptyDict)
    /\ devices' = Get(data, "devices", {})
    /\ pc' = "detect"
    /\ UNCHANGED <<exit_code, nc, cleanups, current_screen, state, screen,
                   backend_report, hist>>

\* the JSON objects tried as payload: each of the keys "system_info" and
\* "devices" present or missing
Payloads ==
    {(IF has_si THEN "system_info" :> si ELSE EmptyDict)
        @@ (IF has_dv THEN "devices" :> dv ELSE EmptyDict) :
        has_si \in BOOLEAN, has_dv \in BOOLEAN, si \in PayloadInfos, dv \in DeviceSets}

\* load_system_info() on a line that parses to a JSON object
LoadPayload == \E data \in Payloads : LoadObject(data)

\* load_system_info() on a missing line or one that is not JSON:
\* json.JSONDecodeError, then detect_system_info()
LoadFallback ==
    /\ pc = "load"
    /\ \E si \in DetectedInfos : system_info' = si
    /\ pc' = "detect"
    /\ UNCHANGED <<exit_code, nc, cleanups, current_screen, state, devices,
                   screen, backend_report, hist>>

\* load_system_info() on a line that parses to JSON that is no object:
\* data.get raises AttributeError, which run() does not catch (the call is
\* outside its try), so the process dies with the renderer still up
LoadNonObject ==
    /\ pc = "load"
    /\ pc' = "crashed"
    /\ exit_code' = 1
    /\ UNCHANGED <<nc, cleanups, current_screen, state, system_info, devices,
                   screen, backend_report, hist>>

\* if not self.devices: self.detect_devices(); then the first loop iteration
\* builds the screen of self.current_screen
DetectDevices ==
    /\ pc = "detect"
    /\ IF devices = {}
       THEN \E dv \in DeviceSets : devices' = dv
       ELSE UNCHANGED devices
    /\ pc' = "loop"
    /\ screen' = Shown(current_screen, state, system_info)
    /\ hist' = Entered(state, current_screen)
    /\ UNCHANGED <<exit_code, nc, cleanups, current_screen, state, system_info,
                   backend_report>>

----------------------------------------------------------------------------
(* ZBMNotcursesTUI.run: the main loop *)

\* self.current_screen = name, and the next iteration builds that screen
Goto(name) ==
    /\ current_screen' = name
    /\ screen' = Shown(name, state', system_info)
    /\ hist' = Entered(state', name)
    /\ UNCHANGED <<pc, exit_code, nc, cleanups, system_info, devices, backend_report>>

\* the screen object changes, the loop stays inside show()
Stay(scr) ==
    /\ screen' = scr
    /\ UNCHANGED <<pc, exit_code, nc, cleanups, current_screen, system_info,
                   devices, backend_report, hist>>

\* the loop stays inside SettingsScreen.show after an edit of self.state
StayEdited ==
    /\ hist' = Edited
    /\ UNCHANGED <<pc, exit_code, nc, cleanups, current_screen, system_info,
                   devices, screen, backend_report>>

\* cleanup(): if self.nc: mouse_disable(); stop()
cleanup ==
    IF nc # "None"
    THEN nc' = "stopped" /\ cleanups' = cleanups + 1
    ELSE UNCHANGED <<nc, cleanups>>

\* break; finally: self.cleanup(); return 0
Quit ==
    /\ pc' = "done"
    /\ exit_code' = 0
    /\ cleanup
    /\ screen' = NoScreen
    /\ UNCHANGED <<current_screen, state, system_info, devices, backend_report,
                   hist>>

\* SIGINT: signal_handler calls sys.exit(0), and SystemExit is raised where
\* run() is. Before the try statement nothing catches it and the process
\* exits with the renderer as it is (during init_notcurses, set up or not);
\* inside the try statement the finally clause runs cleanup() first.
Interrupt ==
    /\ pc \in {"start", "load", "detect", "loop"}
    /\ pc' = "interrupted"
    /\ exit_code' = 0
    /\ IF pc = "loop"
       THEN cleanup /\ screen' = NoScreen
       ELSE /\ nc' \in (IF pc = "start" THEN {nc, "up"} ELSE {nc})
            /\ UNCHANGED <<cleanups, screen>>
    /\ UNCHANGED <<current_screen, state, system_info, devices, backend_report,
                   hist>>

\* WelcomeScreen.show and the "welcome" branch of run
WelcomeKey(key) ==
    /\ pc = "loop"
    /\ current_screen = "welcome"
    /\ IF key \in {"\n", "\r", " "}
       THEN UNCHANGED state /\ Goto("mode_select")
       ELSE IF Lower(key) = "q"
       THEN Quit
       ELSE UNCHANGED vars

\* where ESC on the mode selection screen leads
ModeBackTarget == "welcome"

\* mutant of ModeChosen: choosing a mode also empties the drive selection
ModeChosenClearsDrives(st, result) == [st EXCEPT !.mode = result, !.drives = {}]

\* mutant of ModeChosen: the selected mode is not stored
ModeNotStored(st, result) == st

\* self.state["mode"] = result
ModeChosen(st, result) == [st EXCEPT !.mode = result]

\* ModeSelectionScreen.show and the "mode_select" branch of run
ModeKey(key) ==
    /\ pc = "loop"
    /\ current_screen = "mode_select"
    /\ IF key \in {"\n", "\r"}
       THEN /\ state' = ModeChosen(state, modes[screen.selected + 1])
            /\ Goto("device_select")
       ELSE IF key \in {"j", "down"}
       THEN /\ Stay([screen EXCEPT !.selected = (@ + 1) % Len(modes)])
            /\ UNCHANGED state
       ELSE IF key \in {"k", "up"}
       THEN /\ Stay([screen EXCEPT !.selected = (@ - 1) % Len(modes)])
            /\ UNCHANGED state
       ELSE IF key = "escape"
       THEN UNCHANGED state /\ Goto(ModeBackTarget)
       ELSE IF Lower(key) = "q"
       THEN Quit
       ELSE UNCHANGED vars

\* mutant of DeviceBackState: ESC writes the toggled selection
DeviceBackWritesToggles == [state EXCEPT !.drives = screen.selected_drives]

\* what ESC on the device selection screen leaves in self.state
DeviceBackState == state

\* mutant of SelectionAccepted: Enter returns the selection even when empty
SelectionAcceptedEmpty(selected_drives) == TRUE

\* if len(self.selected_drives) > 0: return list(self.selected_drives)
SelectionAccepted(selected_drives) == Cardinality(selected_drives) > 0

\* DeviceSelectionScreen.show and the "device_select" branch of run
DeviceKey(key) ==
    /\ pc = "loop"
    /\ current_screen = "device_select"
    /\ LET dl == device_list(devices)
       IN  IF key \in {"\n", "\r"}
           THEN IF SelectionAccepted(screen.selected_drives)
                THEN /\ state' = [state EXCEPT !.drives = screen.selected_drives]
                     /\ Goto("settings")
                ELSE UNCHANGED vars
           ELSE IF key = " "
           THEN IF dl # <<>>
                THEN LET dev == dl[screen.cursor + 1]
                     IN  /\ Stay([screen EXCEPT !.selected_drives =
                                     IF dev \in @ THEN @ \ {dev} ELSE @ \cup {dev}])
                         /\ UNCHANGED state
                ELSE UNCHANGED vars
           ELSE IF key \in {"j", "down"}
           THEN IF dl # <<>>
                THEN /\ Stay([screen EXCEPT !.cursor = (@ + 1) % Len(dl)])
                     /\ UNCHANGED state
                ELSE UNCHANGED vars
           ELSE IF key \in {"k", "up"}
           THEN IF dl # <<>>
                THEN /\ Stay([screen EXCEPT !.cursor = (@ - 1) % Len(dl)])
                     /\ UNCHANGED state
                ELSE UNCHANGED vars
           ELSE IF key = "escape"
           THEN state' = DeviceBackState /\ Goto("mode_select")
           ELSE IF Lower(key) = "q"
           THEN Quit
           ELSE UNCHANGED vars

\* mutant of cycle_choice: the index stops at the last option
cycle_choice_clamped(st, field_key, choices) ==
    LET idx == IndexOf(choices, st[field_key])
    IN  IF idx >= 0
        THEN choices[IF idx + 2 > Len(choices) THEN Len(choices) ELSE idx + 2]
        ELSE choices[1]

\* SettingsScreen.cycle_choice
cycle_choice(st, field_key, choices) ==
    LET idx == IndexOf(choices, st[field_key])
    IN  IF idx >= 0 THEN choices[((idx + 1) % Len(choices)) + 1] ELSE choices[1]

\* SettingsScreen.toggle_bool
toggle_bool(st, field_key) == ~st[field_key]

\* SettingsScreen.show and the "settings" branch of run, in the screen's own
\* key loop
SettingsKey(key) ==
    /\ pc = "loop"
    /\ current_screen = "settings"
    /\ screen.editing = ""
    /\ LET fs == fields(state)
           field_info == fs[screen.cursor + 1]
           field_key == field_info[1]
           field_type == field_info[3]
       IN  IF Lower(key) = "c"
           THEN UNCHANGED state /\ Goto("validation")
           ELSE IF key \in {" ", "\n", "\r"}
           THEN IF field_type = "text"
                THEN /\ Stay([screen EXCEPT !.editing = field_key])
                     /\ UNCHANGED state
                ELSE IF field_type = "choice"
                THEN /\ EditAllowed
                     /\ state' = [state EXCEPT ![field_key] =
                                     cycle_choice(state, field_key, field_info[4])]
                     /\ StayEdited
                ELSE /\ EditAllowed
                     /\ state' = [state EXCEPT ![field_key] =
                                     toggle_bool(state, field_key)]
                     /\ StayEdited
           ELSE IF key \in {"j", "down"}
           THEN /\ Stay([screen EXCEPT !.cursor = (@ + 1) % Len(fs)])
                /\ UNCHANGED state
           ELSE IF key \in {"k", "up"}
           THEN /\ Stay([screen EXCEPT !.cursor = (@ - 1) % Len(fs)])
                /\ UNCHANGED state
           ELSE IF key = "escape"
           THEN UNCHANGED state /\ Goto("device_select")
           ELSE IF Lower(key) = "q"
           THEN Quit
           ELSE UNCHANGED vars

\* mutant of edit_text_field: the key pressed is returned as the new text
edit_text_field_typed(st, field_key, key) ==
    IF key = "escape" THEN [none |-> TRUE]
    ELSE [none |-> FALSE, value |-> IF field_key = "pool_name" THEN <<key>> ELSE key]

\* SettingsScreen.edit_text_field on the key it waited for: ESC returns None,
\* any other key returns the current value
edit_text_field(st, field_key, key) ==
    LET current == st[field_key]
    IN  IF key = "escape" THEN [none |-> TRUE]
        ELSE [none |-> FALSE, value |-> current]

\* SettingsScreen.edit_text_field waiting for its key, and the assignment of
\* its result in show
EditKey(key) ==
    /\ pc = "loop"
    /\ current_screen = "settings"
    /\ screen.editing # ""
    /\ LET result == edit_text_field(state, screen.editing, key)
       IN  IF ~result.none
           THEN state' = [state EXCEPT ![screen.editing] = result.value]
           ELSE UNCHANGED state
    /\ Stay([screen EXCEPT !.editing = ""])

\* mutant of ValidAccepted: Enter accepted whatever the results
ValidAcceptedUngated(key) == key \in {"\n", "\r"}

\* if key in ('\n', '\r') and self.all_passed: return "valid"
ValidAccepted(key) == key \in {"\n", "\r"} /\ screen.all_passed

\* ValidationScreen.show (after run_validations) and the "validation" branch
ValidationKey(key) ==
    /\ pc = "loop"
    /\ current_screen = "validation"
    /\ IF ValidAccepted(key)
       THEN UNCHANGED state /\ Goto("confirm")
       ELSE IF key = "escape"
       THEN UNCHANGED state /\ Goto("settings")
       ELSE IF Lower(key) = "q"
       THEN Quit
       ELSE UNCHANGED vars

\* mutant of ProceedTarget: 'y' skips the Install screen
ProceedSkipsInstall == "complete"

\* where 'y' on the confirmation screen leads
ProceedTarget == "install"

\* mutant of ConfirmBackTarget: back skips the Validation screen
ConfirmBackToSettings == "settings"

\* where 'n' or ESC on the confirmation screen leads
ConfirmBackTarget == "validation"

\* ConfirmationScreen.show and the "confirm" branch of run
ConfirmKey(key) ==
    /\ pc = "loop"
    /\ current_screen = "confirm"
    /\ IF Lower(key) = "y"
       THEN UNCHANGED state /\ Goto(ProceedTarget)
       ELSE IF Lower(key) = "n" \/ key = "escape"
       THEN UNCHANGED state /\ Goto(ConfirmBackTarget)
       ELSE IF Lower(key) = "q"
       THEN Quit
       ELSE UNCHANGED vars

----------------------------------------------------------------------------
(* InstallationScreen.show *)

\* the for loop's body up to time.sleep(0.5): current_step = i,
\* add_log("Starting: ..."), update_display()
InstallStepStart ==
    /\ pc = "loop"
    /\ current_screen = "install"
    /\ screen.at = "start"
    /\ screen.i < Len(screen.steps)
    /\ screen' = [screen EXCEPT
                    !.current_step = screen.i,
                    !.log_lines = add_log(@, "Starting: " \o screen.steps[screen.i + 1]),
                    !.at = "work",
                    !.drawn = <<update_display(screen.i, screen.steps)>>]
    /\ UNCHANGED <<pc, exit_code, nc, cleanups, current_screen, state, system_info,
                   devices, backend_report, hist>>

\* the installation backend reports on the step in progress while show()
\* sleeps; show() never reads the report
BackendReport ==
    /\ pc = "loop"
    /\ current_screen = "install"
    /\ screen.at = "work"
    /\ backend_report = "none"
    /\ \E r \in {"completed", "failed"} : backend_report' = r
    /\ UNCHANGED <<pc, exit_code, nc, cleanups, current_screen, state, system_info,
                   devices, screen, hist>>

\* the rest of the for loop's body: add_log("Completed: ..."),
\* update_display(), time.sleep(0.3), next i
InstallStepComplete ==
    /\ pc = "loop"
    /\ current_screen = "install"
    /\ screen.at = "work"
    /\ screen' = [screen EXCEPT
                    !.log_lines = add_log(@, "Completed: " \o screen.steps[screen.i + 1]),
                    !.i = @ + 1,
                    !.at = "start",
                    !.drawn = <<update_display(screen.current_step, screen.steps)>>]
    /\ backend_report' = "none"
    /\ UNCHANGED <<pc, exit_code, nc, cleanups, current_screen, state, system_info,
                   devices, hist>>

\* the "install" branch of run on the result of show()
OnInstallResult(result) ==
    IF result = "success"
    THEN UNCHANGED state /\ Goto("complete")
    ELSE IF result = "failed"
    THEN UNCHANGED state /\ Goto("settings")
    ELSE IF result = "quit"
    THEN Quit
    ELSE UNCHANGED vars

\* mutant of InstallResult: show() reports a failure
InstallResultFailed == "failed"

\* return "success", the only return of InstallationScreen.show
InstallResult == "success"

\* after the for loop, up to time.sleep(1): current_step = len(steps),
\* update_display()
InstallMarkComplete ==
    /\ pc = "loop"
    /\ current_screen = "install"
    /\ screen.at = "start"
    /\ screen.i = Len(screen.steps)
    /\ screen' = [screen EXCEPT
                    !.current_step = Len(screen.steps),
                    !.at = "complete",
                    !.drawn = <<update_display(Len(screen.steps), screen.steps)>>]
    /\ UNCHANGED <<pc, exit_code, nc, cleanups, current_screen, state, system_info,
                   devices, backend_report, hist>>

\* time.sleep(1) returns: return "success"
InstallFinish ==
    /\ pc = "loop"
    /\ current_screen = "install"
    /\ screen.at = "complete"
    /\ OnInstallResult(InstallResult)

\* CompletionScreen.show returns on any key event; run breaks
CompletionKey(key) ==
    /\ pc = "loop"
    /\ current_screen = "complete"
    /\ Quit

KeyPress(key) ==
    \/ WelcomeKey(key)
    \/ ModeKey(key)
    \/ DeviceKey(key)
    \/ SettingsKey(key)
    \/ EditKey(key)
    \/ ValidationKey(key)
    \/ ConfirmKey(key)
    \/ CompletionKey(key)

Next ==
    \/ InitNotcurses
    \/ LoadPayload
    \/ LoadFallback
    \/ LoadNonObject
    \/ DetectDevices
    \/ \E key \in Keys : KeyPress(key)
    \/ InstallStepStart
    \/ BackendReport
    \/ InstallStepComplete
    \/ InstallMarkComplete
    \/ InstallFinish
    \/ Interrupt

Spec == Init /\ [][Next]_vars

\* the program when every time.sleep of InstallationScreen.show returns:
\* a step of the Install screen that can be taken is taken
SpecInstall ==
    /\ Init
    /\ [][Next]_vars
    /\ WF_vars(InstallStepStart)
    /\ WF_vars(InstallStepComplete)
    /\ WF_vars(InstallMarkComplete)
    /\ WF_vars(InstallFinish)

----------------------------------------------------------------------------
(* The same program with the history kept *)

InitEntry ==
    /\ pc = "start"
    /\ exit_code = -1
    /\ nc = "None"
    /\ cleanups = 0
    /\ current_screen = "welcome"
    /\ state = InitialState
    /\ system_info = EmptyDict
    /\ devices = {}
    /\ screen = NoScreen
    /\ backend_report = "none"
    /\ hist = NewHistory

SpecEntry == InitEntry /\ [][Next]_vars

----------------------------------------------------------------------------
(* ValidationScreen.run_validations on its own *)

\* characters tried in pool names
NameChars == {"a", "Z", "7", "_", "-", ".", NonAsciiLetter}

\* the pool names of at most n characters
RECURSIVE Names(_)
Names(n) ==
    IF n = 0 THEN {<<>>}
    ELSE Names(n - 1)
         \cup {Append(s, c) : s \in {t \in Names(n - 1) : Len(t) = n - 1}, c \in NameChars}

\* configurations handed to run_validations
UnitConfigs ==
    {[InitialState EXCEPT !.mode = m, !.drives = DeviceSet(k), !.raid_level = r,
                          !.pool_name = p, !.hostname = h] :
        m \in {"None", "new", "existing"}, k \in 0..MaxDrives,
        r \in {RaidChoices[i] : i \in 1..Len(RaidChoices)},
        p \in Names(MaxNameLen), h \in {"", "zfsbox"}}

\* JSON null (Python None) as the value of a key of the payload: a value that
\* is no number, written as one no size or count can take
JsonNull == -1

\* ram_gb >= 2 on a ram_gb that is None: TypeError
RamRaises(si) == Get(si, "ram_gb", 0) = JsonNull

\* system facts handed to run_validations: those of SysInfos, and payloads
\* whose ram_gb is null
UnitInfos ==
    SysInfos \cup {("is_efi" :> e) @@ ("ram_gb" :> JsonNull) : e \in BOOLEAN}

InitUnit ==
    /\ pc = "unit"
    /\ exit_code = -1
    /\ nc = "up"
    /\ cleanups = 0
    /\ current_screen = "validation"
    /\ state \in UnitConfigs
    /\ system_info \in UnitInfos
    /\ devices = state.drives
    /\ screen = ValidationScreen
    /\ backend_report = "none"
    /\ hist = NoHistory

\* screen.run_validations(), called on the same object up to twice; when the
\* RAM comparison raises, the call ends there with the EFI check appended
RunValidations ==
    /\ pc \in {"unit", "validated"}
    /\ IF RamRaises(system_info)
       THEN /\ pc' = "raised"
            /\ screen' = [screen EXCEPT
                             !.checks = ClearedChecks(@) \o <<EfiCheck(system_info)>>]
       ELSE /\ pc' = IF pc = "unit" THEN "validated" ELSE "revalidated"
            /\ screen' = run_validations_on(screen, state, system_info)
    /\ UNCHANGED <<exit_code, nc, cleanups, current_screen, state, system_info,
                   devices, backend_report, hist>>

NextUnit == RunValidations

SpecUnit == InitUnit /\ [][NextUnit]_vars

----------------------------------------------------------------------------
(* SettingsScreen.cycle_choice on its own: the Settings screen with the
   cursor on a choice field, taking edit keys only *)

\* the sequence as a set
Range(seq) == {seq[i] : i \in 1..Len(seq)}

\* cursor positions of the choice fields
ChoiceCursors == {c \in 0..(Len(CommonFields) - 1) : CommonFields[c + 1][3] = "choice"}

\* configurations the Settings screen can be showing: a mode and a drive
\* chosen, each choice field at its default or at one of its options
CycleConfigs ==
    {[InitialState EXCEPT !.mode = m, !.drives = DeviceSet(1), !.compression = c,
                          !.raid_level = r, !.bootloader = b, !.ashift = a] :
        m \in Range(modes), c \in Range(CompressionChoices), r \in Range(RaidChoices),
        b \in Range(BootloaderChoices),
        a \in Range(AshiftChoices) \cup {InitialState.ashift}}

InitCycle ==
    /\ pc = "loop"
    /\ exit_code = -1
    /\ nc = "up"
    /\ cleanups = 0
    /\ current_screen = "settings"
    /\ state \in CycleConfigs
    /\ system_info \in DetectedInfos
    /\ devices = DeviceSet(1)
    /\ \E c \in ChoiceCursors : screen = [SettingsScreen EXCEPT !.cursor = c]
    /\ backend_report = "none"
    /\ hist = CycleHistory

\* SPACE or ENTER on the field under the cursor
EditInput == \E key \in {" ", "\n"} : SettingsKey(key)

NextCycle == EditInput

SpecCycle == InitCycle /\ [][NextCycle]_vars

----------------------------------------------------------------------------
(* Vocabulary of the properties *)

\* the rules of the critical checks as the specification states them
RaidMinimum == [none |-> 0, mirror |-> 2, raidz1 |-> 3, raidz2 |-> 4, raidz3 |-> 5]

\* the characters [A-Za-z0-9_-]
PoolNameChars == Lowercase \cup Uppercase \cup DigitChars \cup {"_", "-"}

PoolNameValid(name) ==
    Len(name) > 0 /\ \A i \in 1..Len(name) : name[i] \in PoolNameChars

\* every critical check holds for configuration st and facts si
CriticalChecksHold(st, si) ==
    /\ Get(si, "is_efi", FALSE) = TRUE
    /\ Get(si, "ram_gb", 0) >= 2
    /\ st.drives # {}
    /\ Cardinality(st.drives) >= RaidMinimum[st.raid_level]
    /\ PoolNameValid(st.pool_name)

\* the screens that have a back transition
BackScreens == {"mode_select", "device_select", "settings", "validation", "confirm"}

\* the loop is inside the key loop of the current screen's show()
InKeyLoop ==
    /\ pc = "loop"
    /\ current_screen = "settings" => screen.editing = ""

\* a step of the loop that moves to an earlier screen
BackStep == pc = "loop" /\ Pos(current_screen') < Pos(current_screen)

\* a step of the loop that moves to a later screen
ForwardStep == pc = "loop" /\ Pos(current_screen') > Pos(current_screen)

\* a back input taken by the current screen
BackInput ==
    \E key \in {"escape", "N"} :
        KeyPress(key) /\ Pos(current_screen') = Pos(current_screen) - 1

\* a quit input taken by the current screen, ending the session
QuitInput ==
    \E key \in {"q", "Q"} : KeyPress(key) /\ pc' = "done"

\* run_validations has run on the ValidationScreen
Validated ==
    /\ screen.class = "ValidationScreen"
    /\ screen.checks # <<>>
    /\ pc # "raised"

----------------------------------------------------------------------------
(* C1 *)

\* C1: in every reachable state whose current screen is Confirmation, Install
\* or Completion, every critical check (EFI, RAM >= 2, drives non-empty, RAID
\* minimum, pool name) holds for the current configuration and system facts;
\* so with is_efi false Confirmation is never reached.
C1_ValidationGate ==
    current_screen \in {"confirm", "install", "complete"}
        => CriticalChecksHold(state, system_info)

\* the gate has let a run through to the Completion screen
C1_Witness ==
    /\ pc = "loop"
    /\ current_screen = "complete"
    /\ CriticalChecksHold(state, system_info)

----------------------------------------------------------------------------
(* C2 *)

\* C2 as claimed: every back transition leaves the configuration identical
\* to its value when the screen being left was entered.
C2_BackRestoresEntry == [][BackStep => state' = hist.entry]_vars

\* C2 as amended: every back transition leaves the configuration as it was
\* just before the back input; on ModeSelect, DeviceSelect, Validation and
\* Confirmation that is its value when the screen was entered (so drive
\* toggles not confirmed with Enter are not written), while edits made on
\* Settings were written when they were made and stay.
C2_BackKeepsConfig ==
    [][BackStep => /\ state' = state
                   /\ current_screen # "settings" => state' = hist.entry]_vars

\* Settings was edited, left for Validation, and entered again by back
C2_Witness ==
    /\ hist.on
    /\ hist.nav = "back"
    /\ current_screen = "settings"
    /\ hist.edits > 0

----------------------------------------------------------------------------
(* C3 *)

\* C3: a forward transition moves the current screen only to its immediate
\* successor in Welcome, ModeSelect, DeviceSelect, Settings, Validation,
\* Confirmation, Install, Completion; Install is entered only from
\* Confirmation and Confirmation only from Validation.
C3_ForwardChain ==
    [][/\ ForwardStep => Pos(current_screen') = Pos(current_screen) + 1
       /\ (current_screen' = "install" /\ current_screen # "install")
              => current_screen = "confirm"
       /\ (current_screen' = "confirm" /\ current_screen # "confirm")
              => current_screen = "validation"]_vars

\* the whole chain has been walked
C3_Witness == pc = "loop" /\ current_screen = "complete"

----------------------------------------------------------------------------
(* C4 *)

\* C4: ModeSelect, DeviceSelect, Settings, Validation and Confirmation each
\* accept a back input in their key loop, every backward move goes to the
\* immediate predecessor, and no backward move starts from Welcome, Install
\* or Completion.
C4_BackToPredecessor ==
    /\ []((InKeyLoop /\ current_screen \in BackScreens) => ENABLED BackInput)
    /\ [][BackStep => /\ Pos(current_screen') = Pos(current_screen) - 1
                      /\ current_screen \in BackScreens]_vars

\* Settings, DeviceSelect and ModeSelect have each been left backwards: the
\* run is at Welcome again with a mode, drives and a RAID level chosen
C4_Witness ==
    /\ pc = "loop"
    /\ current_screen = "welcome"
    /\ state.mode # "None"
    /\ state.drives # {}
    /\ state.raid_level # "none"

----------------------------------------------------------------------------
(* C5 *)

\* C5 as claimed: in every state in which a screen is showing, a quit input
\* is accepted and ends the session.
C5_QuitEverywhere == InKeyLoop => ENABLED QuitInput

----------------------------------------------------------------------------
(* C6 *)

\* C6 as claimed: once the backend has reported the failure of the step in
\* progress, the next step of the Install screen is the transition to
\* Settings, with the configuration unchanged.
C6_FailureReturnsToSettings ==
    [][(current_screen = "install" /\ backend_report = "failed")
          => (current_screen' = "settings" /\ state' = state)]_vars

----------------------------------------------------------------------------
(* C7 *)

\* C7 as claimed: the Install screen moves on from a step, or returns
\* success, only when the backend has reported that step completed.
C7_ProgressOnlyOnSignal ==
    [][(current_screen = "install" /\ screen.at = "work" /\ screen' # screen)
          => backend_report = "completed"]_vars

----------------------------------------------------------------------------
(* C8 *)

\* the name a failing RAID message gives the level
RaidLabel(raid_level) == IF raid_level = "mirror" THEN "Mirror" ELSE raid_level

\* C8: the RAID Configuration check passes iff the number of drives is at
\* least the level's minimum (none 0, mirror 2, raidz1 3, raidz2 4, raidz3 5);
\* when it fails, all_passed is false and the message names that minimum.
C8_RaidMinimum ==
    Validated =>
        LET check == screen.checks[4]
            n == Cardinality(state.drives)
            minimum == RaidMinimum[state.raid_level]
        IN  /\ check.name = "RAID Configuration"
            /\ check.passed <=> n >= minimum
            /\ ~check.passed =>
                  /\ ~screen.all_passed
                  /\ check.message = RaidLabel(state.raid_level) \o " requires "
                                     \o ToStr(minimum) \o "+ drives"

\* one drive under mirror has been validated, and the check failed
C8_Witness ==
    /\ Validated
    /\ state.raid_level = "mirror"
    /\ Cardinality(state.drives) = 1
    /\ ~screen.checks[4].passed
    /\ screen.checks[4].message = "Mirror requires 2+ drives"

----------------------------------------------------------------------------
(* C9 *)

\* C9 as claimed: the Pool Name check passes iff the name is non-empty and
\* every character is in [A-Za-z0-9_-].
C9_PoolNameRule ==
    Validated => (screen.checks[5].passed <=> PoolNameValid(state.pool_name))

----------------------------------------------------------------------------
(* C10 *)

\* the names and severities of a list of checks
Outline(checks) == [i \in 1..Len(checks) |-> <<checks[i].name, checks[i].critical>>]

\* C10: the checks are EFI System Check, RAM Check, Drive Selection, RAID
\* Configuration, Pool Name in that order, all critical, followed by a
\* non-critical Hostname check exactly when the mode is MigrateExisting.
C10_CheckOrder ==
    Validated =>
        Outline(screen.checks) =
            <<<<"EFI System Check", TRUE>>, <<"RAM Check", TRUE>>,
              <<"Drive Selection", TRUE>>, <<"RAID Configuration", TRUE>>,
              <<"Pool Name", TRUE>>>>
            \o (IF state.mode = "existing" THEN <<<<"Hostname", FALSE>>>> ELSE <<>>)

\* a new installation with an empty hostname has been validated: five checks
C10_Witness ==
    /\ Validated
    /\ state.mode = "new"
    /\ state.hostname = ""
    /\ Len(screen.checks) = 5

----------------------------------------------------------------------------
(* C11 *)

\* the forward-continue input taken by the Validation screen
ContinueInput == KeyPress("\n") /\ current_screen' = "confirm"

\* every critical result of the list passed
EveryCriticalPassed(checks) ==
    \A i \in 1..Len(checks) : checks[i].critical => checks[i].passed

\* C11: on the Validation screen all_passed is true iff every result marked
\* critical passed, and whenever every critical result passed the forward
\* input is accepted and leads to Confirmation, whatever the non-critical
\* Hostname result (migration mode with an empty hostname included).
C11_NonCriticalNeverBlocks ==
    (pc = "loop" /\ current_screen = "validation") =>
        /\ screen.all_passed <=> EveryCriticalPassed(screen.checks)
        /\ EveryCriticalPassed(screen.checks) => ENABLED ContinueInput

\* a migration with an empty hostname has passed the gate: its Hostname
\* check failed and Confirmation is showing
C11_Witness ==
    /\ pc = "loop"
    /\ current_screen = "confirm"
    /\ state.mode = "existing"
    /\ state.hostname = ""
    /\ ~HostnameCheck(state).passed

----------------------------------------------------------------------------
(* C12 *)

\* C12: running run_validations a second time on the same configuration and
\* system facts yields the same ordered results (nothing accumulated from
\* the first run) and the same all_passed, and changes neither the
\* configuration nor the system facts.
C12_ValidationIdempotent ==
    [][(pc = "validated" /\ pc' = "revalidated") =>
          /\ screen'.checks = screen.checks
          /\ screen'.all_passed = screen.all_passed
          /\ state' = state
          /\ system_info' = system_info]_vars

\* the validations have run twice on a migration: six results, not twelve
C12_Witness ==
    /\ pc = "revalidated"
    /\ state.mode = "existing"
    /\ Len(screen.checks) = 6

----------------------------------------------------------------------------
(* C13 *)

\* C13: whenever the Validation screen is showing, however it was entered,
\* its results and its gate decision are those of the checks applied to the
\* configuration and system facts as they are at that moment.
C13_ValidationFresh ==
    (pc = "loop" /\ current_screen = "validation") =>
        /\ screen.checks = Checks(state, system_info)
        /\ screen.all_passed = AllCriticalPassed(Checks(state, system_info))

\* the Validation screen shows the failure of a RAID level chosen in Settings
C13_Witness ==
    /\ pc = "loop"
    /\ current_screen = "validation"
    /\ state.raid_level = "mirror"
    /\ Cardinality(state.drives) = 1
    /\ ~screen.checks[4].passed

----------------------------------------------------------------------------
(* C14 *)

\* the option list of choice field field_key
ChoicesOf(field_key) ==
    LET i == CHOOSE i \in 1..Len(CommonFields) : CommonFields[i][1] = field_key
    IN  CommonFields[i][4]

\* C14 as claimed: once a choice field with N options has been cycled N
\* times in a row, it has the value it had before the first of these cycles.
C14_CycleWraps ==
    (hist.cycles /\ hist.count > 0 /\ hist.count = Len(ChoicesOf(hist.field)))
        => state[hist.field] = hist.origin

----------------------------------------------------------------------------
(* C15 *)

\* C15: cycling a choice field sets it to the option right after the current
\* value in the field's option list, the last option being followed by the
\* first; a current value that is not in the list gives the first option;
\* the loop goes on and no other field changes.
C15_CycleNext ==
    [][(hist.cycles /\ hist' # hist) =>
          LET field_key == hist'.field
              choices == ChoicesOf(field_key)
              current == state[field_key]
          IN  /\ \A i \in 1..Len(choices) :
                     choices[i] = current =>
                        state'[field_key] =
                            choices[IF i = Len(choices) THEN 1 ELSE i + 1]
              /\ current \notin Range(choices) => state'[field_key] = choices[1]
              /\ \A k \in DOMAIN state : k # field_key => state'[k] = state[k]
              /\ pc' = "loop"]_vars

\* the ashift field, whose default is not among its options, has been cycled
\* once and holds the first option
C15_Witness ==
    /\ hist.cycles
    /\ hist.field = "ashift"
    /\ hist.origin = ""
    /\ hist.count = 1
    /\ state.ashift = "auto"

----------------------------------------------------------------------------
(* C16 *)

\* the printable keys among the key events tried
TextKeys == {"j", "c", "y", "N"}

\* the value of a free-text field holding just the text of one key
EnteredText(field_key, key) == IF field_key = "pool_name" THEN <<key>> ELSE key

\* the edit prompt of a free-text field is open
InEditPrompt == pc = "loop" /\ current_screen = "settings" /\ screen.editing # ""

\* C16 as claimed: when the operator enters text at the edit prompt of a
\* free-text field and the edit is accepted, the field holds that text; when
\* the edit is cancelled with ESC no field of the configuration changes.
C16_TextEditReplaces ==
    [][InEditPrompt =>
          /\ \A key \in TextKeys :
                 EditKey(key) => state'[screen.editing] = EnteredText(screen.editing, key)
          /\ EditKey("escape") => state' = state]_vars

----------------------------------------------------------------------------
(* C17 *)

\* the configurations agree on every field outside `keys`
SameExcept(st1, st2, keys) == \A k \in DOMAIN st1 \ keys : st2[k] = st1[k]

\* C17: a step taken while ModeSelect is showing changes no field but mode,
\* one taken while DeviceSelect is showing changes no field but drives, one
\* taken while Settings is showing changes neither mode nor drives, and one
\* taken while Welcome, Validation, Confirmation, Install or Completion is
\* showing changes no field.
C17_WriteScope ==
    [][pc = "loop" =>
          /\ current_screen = "mode_select" => SameExcept(state, state', {"mode"})
          /\ current_screen = "device_select" => SameExcept(state, state', {"drives"})
          /\ current_screen = "settings" =>
                 state'.mode = state.mode /\ state'.drives = state.drives
          /\ current_screen \in {"welcome", "validation", "confirm", "install",
                                  "complete"} => state' = state]_vars

\* ModeSelect, DeviceSelect and Settings have each written their fields,
\* ModeSelect with drives already chosen, and the run is past Confirmation
C17_Witness ==
    /\ pc = "loop"
    /\ current_screen = "install"
    /\ state.mode = "existing"
    /\ state.drives # {}
    /\ state.copy_home = FALSE
    /\ state.bootloader # "zbm"

----------------------------------------------------------------------------
(* C18 *)

\* the keys of the fields the Settings screen offers for configuration st
FieldKeys(st) == {fields(st)[i][1] : i \in 1..Len(fields(st))}

\* the fields relevant to a migration only
MigrationOnlyFields == {"hostname", "source_root", "copy_home", "exclude_paths"}

\* C18 as claimed: the Settings screen of a migration offers exactly four
\* fields more than that of a new installation, namely hostname,
\* source_root, copy_home and exclude_paths, and the Settings screen of a new
\* installation offers none of these four.
C18_MigrationFields ==
    (pc = "loop" /\ current_screen = "settings") =>
        /\ state.mode = "existing" =>
               /\ Len(fields(state)) = Len(fields([state EXCEPT !.mode = "new"])) + 4
               /\ MigrationOnlyFields \subseteq FieldKeys(state)
        /\ state.mode = "new" => FieldKeys(state) \cap MigrationOnlyFields = {}

----------------------------------------------------------------------------
(* C19 *)

\* the device selection screen is showing
OnDeviceSelect == pc = "loop" /\ current_screen = "device_select"

\* the device under the cursor
DeviceUnderCursor == device_list(devices)[screen.cursor + 1]

\* the toggle input taken by the device selection screen, changing the
\* selection
ToggleInput == DeviceKey(" ") /\ screen'.selected_drives # screen.selected_drives

\* the selection with the membership of dev changed
Toggled(selected_drives, dev) ==
    IF dev \in selected_drives THEN selected_drives \ {dev}
    ELSE selected_drives \cup {dev}

----------------------------------------------------------------------------
(* C20 *)

\* C20: the step list of the Install screen has exactly nine steps for a
\* migration and exactly seven for a new installation; in both its first
\* step is "Checking device fitness" and its last "Finalizing installation".
C20_StepList ==
    (pc = "loop" /\ current_screen = "install") =>
        /\ state.mode \in {"new", "existing"}
        /\ state.mode = "existing" => Len(screen.steps) = 9
        /\ state.mode = "new" => Len(screen.steps) = 7
        /\ screen.steps[1] = "Checking device fitness"
        /\ screen.steps[Len(screen.steps)] = "Finalizing installation"

\* the Install screen of a migration is at its ninth and last step
C20_Witness ==
    /\ pc = "loop"
    /\ current_screen = "install"
    /\ state.mode = "existing"
    /\ screen.current_step = 8
    /\ screen.steps[screen.current_step + 1] = "Finalizing installation"

----------------------------------------------------------------------------
(* C21 *)

\* the messages show() has passed to add_log so far, in the order of the
\* calls: "Starting: s" for every step s begun and "Completed: s" for every
\* step done
Logged(scr) ==
    LET k == 2 * scr.i + (IF scr.at = "work" THEN 1 ELSE 0)
    IN  [m \in 1..k |->
            IF m % 2 = 1 THEN "Starting: " \o scr.steps[(m + 1) \div 2]
            ELSE "Completed: " \o scr.steps[m \div 2]]

\* C21: after any number k of add_log calls the log buffer of the Install
\* screen holds at most 10 entries, and these are exactly the most recent
\* min(k, 10) messages added, in the order they were added.
C21_LogBufferFifo ==
    (pc = "loop" /\ current_screen = "install") =>
        LET all == Logged(screen)
            k == Len(all)
            n == IF k < 10 THEN k ELSE 10
        IN  /\ Len(screen.log_lines) <= 10
            /\ screen.log_lines = SubSeq(all, k - n + 1, k)

\* all 18 messages of a migration have been logged: the buffer holds the
\* last ten, the oldest of them the ninth message
C21_Witness ==
    /\ pc = "loop"
    /\ current_screen = "install"
    /\ Len(Logged(screen)) = 18
    /\ Len(screen.log_lines) = 10
    /\ screen.log_lines[1] = "Starting: Mounting filesystems"
    /\ screen.log_lines[10] = "Completed: Finalizing installation"

----------------------------------------------------------------------------
(* C22 *)

\* C22 as claimed: the configuration as constructed has pool_name "zroot",
\* raid_level none, bootloader zbm, compression zstd, ashift auto, efi_size
\* "1G", swap_size "8G", copy_home true, no drives and no mode.
C22_DocumentedDefaults ==
    pc = "start" =>
        /\ state.pool_name = <<"z", "r", "o", "o", "t">>
        /\ state.raid_level = "none"
        /\ state.bootloader = "zbm"
        /\ state.compression = "zstd"
        /\ state.ashift = "auto"
        /\ state.efi_size = "1G"
        /\ state.swap_size = "8G"
        /\ state.copy_home = TRUE
        /\ state.drives = {}
        /\ state.mode = "None"

----------------------------------------------------------------------------
(* C23 *)

\* C23: a run that returns after a quit or after the Completion screen
\* returns status 0; a run whose renderer initialization fails returns a
\* non-zero status straight from startup, with no screen built then or later.
C23_ExitStatus ==
    /\ [](pc = "done" => IF nc = "None" THEN exit_code > 0 ELSE exit_code = 0)
    /\ [][(pc = "loop" /\ pc' = "done") => exit_code' = 0]_vars
    /\ [][(pc = "start" /\ nc' = "None" /\ pc' # "interrupted") =>
              /\ pc' = "done"
              /\ exit_code' > 0
              /\ screen' = NoScreen]_vars
    /\ [][pc = "done" => pc' = "done" /\ screen' = screen]_vars

\* renderer initialization has failed and run() has returned 1
C23_Witness ==
    /\ pc = "done"
    /\ nc = "None"
    /\ exit_code = 1
    /\ screen = NoScreen

----------------------------------------------------------------------------
(* C24 *)

\* the session has ended: run() returned, or the process exited on an
\* interrupt or died on an uncaught error
Ended == pc \in {"done", "interrupted", "crashed"}

\* C24 as claimed: whenever the session has ended with the renderer
\* initialized, cleanup has run exactly once and the renderer is stopped; a
\* session ended by an interrupt has exit status 0.
C24_TeardownAlways ==
    /\ (Ended /\ nc # "None") => (cleanups = 1 /\ nc = "stopped")
    /\ pc = "interrupted" => exit_code = 0

----------------------------------------------------------------------------
(* C25 *)

\* the system facts come from local probing: detect_system_info always sets
\* is_efi
Probed(si) == "is_efi" \in DOMAIN si

\* load_system_info() on a payload that is absent, is no JSON, is JSON but no
\* object, or is an object without the key "system_info"
LoadUnusable ==
    \/ LoadFallback
    \/ LoadNonObject
    \/ \E data \in Payloads : "system_info" \notin DOMAIN data /\ LoadObject(data)

\* C25 as claimed: when the startup payload is absent, is not valid JSON, is
\* JSON but not an object, or lacks the key system_info, loading ends with
\* the system facts obtained by local probing and startup goes on, and
\* startup then reaches the Welcome screen.
C25_PayloadFallback ==
    /\ [][LoadUnusable => (pc' = "detect" /\ Probed(system_info'))]_vars
    /\ [][(pc = "detect" /\ pc' # "interrupted") =>
              (pc' = "loop" /\ current_screen' = "welcome")]_vars

----------------------------------------------------------------------------
(* C26 *)

\* C26 as claimed: for every configuration and all system facts the startup
\* path can store, missing keys and a null ram_gb included, a call of
\* run_validations returns, with the complete list of five or six results.
C26_ValidationTotal ==
    pc \in {"validated", "revalidated", "raised"} =>
        /\ pc # "raised"
        /\ Len(screen.checks) \in {5, 6}

----------------------------------------------------------------------------
(* C27 *)

\* the screens from DeviceSelect on
LaterScreens == {name \in Range(ScreenOrder) : Pos(name) >= Pos("device_select")}

\* C27 as claimed: whenever the current screen is DeviceSelect or later the
\* mode is new or existing, and a mode once set never changes to a different
\* value.
C27_ModeSetOnce ==
    /\ [](current_screen \in LaterScreens => state.mode \in {"new", "existing"})
    /\ [][state.mode # "None" => state'.mode = state.mode]_vars

\* C27 as amended: whenever the current screen is DeviceSelect or later the
\* mode is new or existing, and the mode changes only by a selection on
\* ModeSelect, which sets it to new or existing and moves on to DeviceSelect;
\* a selection made after navigating back to ModeSelect may change a mode
\* set earlier.
C27_ModeSetOnModeSelect ==
    /\ [](current_screen \in LaterScreens => state.mode \in {"new", "existing"})
    /\ [][state'.mode # state.mode =>
              /\ pc = "loop"
              /\ current_screen = "mode_select"
              /\ current_screen' = "device_select"
              /\ state'.mode \in {"new", "existing"}]_vars

\* ModeSelect is showing again after a migration was chosen, the cursor on
\* the other mode
C27_Witness ==
    /\ pc = "loop"
    /\ current_screen = "mode_select"
    /\ state.mode = "existing"
    /\ modes[screen.selected + 1] = "new"

----------------------------------------------------------------------------
(* C28 *)

\* the screens after DeviceSelect
AfterDeviceSelect == {"settings", "validation", "confirm", "install", "complete"}

\* C28: in every reachable state the drives of the configuration are among
\* the enumerated devices (a set, so without duplicates); whenever the
\* current screen is Settings, Validation, Confirmation, Install or
\* Completion the drive set is not empty, and the Drive Selection check shown
\* on the Validation screen has passed.
C28_DriveSet ==
    /\ state.drives \subseteq devices
    /\ current_screen \in AfterDeviceSelect => state.drives # {}
    /\ (pc = "loop" /\ current_screen = "validation") =>
           /\ screen.checks[3].name = "Drive Selection"
           /\ screen.checks[3].passed

\* the Validation screen shows a passed Drive Selection check for a
\* configuration that holds every enumerated device
C28_Witness ==
    /\ pc = "loop"
    /\ current_screen = "validation"
    /\ devices # {}
    /\ state.drives = devices
    /\ screen.checks[3].passed

----------------------------------------------------------------------------
(* C29 *)

----------------------------------------------------------------------------
(* C30 *)

\* the Install screen is running
Installing == pc = "loop" /\ current_screen = "install"

\* a key taken by the screen showing
KeyInput == \E key \in Keys : KeyPress(key)

\* C30 as claimed: from the Install screen the next state is never Settings
\* and never the end of the session; the run goes through the steps one by
\* one without taking operator input and then moves to Completion.
C30_InstallAlwaysSucceeds ==
    /\ [][Installing => (pc' = "loop" /\ current_screen' \in {"install", "complete"})]_vars
    /\ [](Installing => ~ENABLED KeyInput)

\* C30 as amended: unless an interrupt signal ends the session, an execution
\* that enters the Install screen runs through all steps of the mode's list
\* in order, the loop index going up by one per completed step from 0 to the
\* number of steps and current_step following it, takes no key, and then
\* moves to Completion; from Install the next screen is never Settings and
\* run() never returns.
C30_InstallSucceedsUnlessInterrupted ==
    /\ [][Installing =>
              /\ pc' \in {"loop", "interrupted"}
              /\ current_screen' \in {"install", "complete"}
              /\ (pc' = "loop" /\ current_screen' = "install") =>
                     /\ screen'.steps = screen.steps
                     /\ screen'.i \in {screen.i, screen.i + 1}
                     /\ screen'.current_step \in {screen.current_step,
                                                  screen.current_step + 1}
                     /\ screen'.current_step \in {screen'.i, screen'.i - 1}
              /\ current_screen' = "complete" => screen.i = Len(screen.steps)]_vars
    /\ [](Installing => (screen.steps = init_steps(state) /\ ~ENABLED KeyInput))
    /\ Installing ~> (current_screen = "complete" \/ pc = "interrupted")

\* the Install screen of a new installation has run through its seven steps
\* and the Completion screen is showing
C30_Witness ==
    /\ pc = "loop"
    /\ current_screen = "complete"
    /\ state.mode = "new"
    /\ Len(init_steps(state)) = 7

----------------------------------------------------------------------------
(* C31 *)

\* C31: at every Install display update the progress shown is in range: the
\* step number k of "Step k of n" satisfies 1 <= k <= n, n being the number
\* of steps of the mode, and the percentage is between 0 and 100.
C31_ProgressInRange ==
    (Installing /\ screen.drawn # <<>>) =>
        /\ screen.drawn[1].of = Len(init_steps(state))
        /\ 1 <= screen.drawn[1].step
        /\ screen.drawn[1].step <= screen.drawn[1].of
        /\ 0 <= screen.drawn[1].percent
        /\ screen.drawn[1].percent <= 100

====
